---- MODULE Spec2Model ----
(***************************************************************************)
(* Model of seaweed_apt/distilled_trainer.py: the consistency-distillation *)
(* training loop train_consistency_distillation (checkpoint cadence,       *)
(* primary-only I/O, metrics emission, EMA update, step/loss counters) and *)
(* the command-line / config-file merge of the __main__ block.             *)
(*                                                                         *)
(* Tensors are modelled exactly.  A parameter value is a polynomial in the *)
(* EMA decay d with integer coefficients, <<c0, c1, ..., cn>> standing for *)
(* c0 + c1*d + ... + cn*d^n, so that mul_(decay) and add_(x, alpha=1-decay)*)
(* are computed without rounding for every d at once; the code's decay     *)
(* 0.995 is the rational EmaDecayNum / EmaDecayDen at which a polynomial   *)
(* is evaluated.  The network of the external library is a two-parameter   *)
(* linear map, the optimizer a fixed step against the sign of the gradient,*)
(* and torch's random generator a linear congruential generator.           *)
(***************************************************************************)
EXTENDS Integers, Sequences, FiniteSets, TLC

\* ------------------------------------------------------------------ bounds
MaxEpochs == 2          \* num_epochs ranges over 0..MaxEpochs (one process)
MaxBatches == 6         \* len(train_dataloader) ranges over 0..MaxBatches
MaxSaveInterval == 3    \* save_interval ranges over 1..MaxSaveInterval
MaxSeed == 0            \* seed of the random generator ranges over 0..MaxSeed
MaxCfgScale == 2        \* cfg_scale ranges over 1..MaxCfgScale
MaxEpochsMulti == 1     \* num_epochs in the multi-process specification
MaxBatchesMulti == 2    \* len(train_dataloader) in the multi-process one
MaxSaveIntervalMulti == 2

\* ------------------------------------------------------- program constants
EmaDecayNum == 199      \* ema_decay = 0.995 = 199/200
EmaDecayDen == 200
LogEvery == 5           \* batch_idx % 5 == 0
PrintEvery == 10        \* batch_idx % 10 == 0
StepSize == 2           \* the length of one RMSprop step, in units of the weights

Procs == {1, 2}         \* the worker processes of a multi-process launch
output_dir == "./output"
NONE == "<None>"        \* Python's None as an argument value

VARIABLES
    \* inputs of train_consistency_distillation
    world, is_main_process, num_epochs, num_batches, save_interval, use_wandb,
    cfg_scale,
    \* whether the module's global name config is bound when the function runs
    config_global,
    \* locals of train_consistency_distillation, one copy per process
    pc, epoch, batch_idx, step, total_loss, loss, grad, models, rng, returned,
    \* history of the calls each process made
    opt_calls, ema_calls, ema_hist, loss_hist,
    \* the world outside the processes
    dirs, makedirs_calls, files, writes, wandb_calls, stdout,
    \* the __main__ block
    main_pc, cli, args, config_files

inputVars == <<world, is_main_process, num_epochs, num_batches, save_interval,
               use_wandb, cfg_scale, config_global>>
loopVars == <<epoch, batch_idx, step, total_loss>>
tensorVars == <<loss, grad, models, rng>>
histVars == <<opt_calls, ema_calls, ema_hist, loss_hist>>
fsVars == <<dirs, makedirs_calls, files, writes>>
outVars == <<wandb_calls, stdout>>
mainVars == <<main_pc, cli, args, config_files>>
vars == <<inputVars, pc, loopVars, tensorVars, returned, histVars, fsVars,
          outVars, mainVars>>

\* ------------------------------------------------------ exact tensor values
Max(a, b) == IF a >= b THEN a ELSE b
Min(a, b) == IF a <= b THEN a ELSE b
Sign(x) == IF x > 0 THEN 1 ELSE IF x < 0 THEN -1 ELSE 0

PolyCoef(p, k) == IF k \in 1..Len(p) THEN p[k] ELSE 0

PolyAdd(a, b) == [k \in 1..Max(Len(a), Len(b)) |-> PolyCoef(a, k) + PolyCoef(b, k)]

PolyNeg(a) == [k \in 1..Len(a) |-> 0 - a[k]]

RECURSIVE ConvSum(_, _, _, _)
ConvSum(a, b, k, i) ==
    IF i > Len(a) THEN 0
    ELSE a[i] * PolyCoef(b, k - i + 1) + ConvSum(a, b, k, i + 1)

PolyMul(a, b) == [k \in 1..(Len(a) + Len(b) - 1) |-> ConvSum(a, b, k, 1)]

Val(p) == p[1]          \* the value of a parameter that does not depend on d

RECURSIVE Pow(_, _)
Pow(b, n) == IF n = 0 THEN 1 ELSE b * Pow(b, n - 1)

\* den^(Len(p)-1) times the value of p at d = num/den
RECURSIVE EvalScaledFrom(_, _, _, _)
EvalScaledFrom(p, k, num, den) ==
    IF k > Len(p) THEN 0
    ELSE p[k] * Pow(num, k - 1) * Pow(den, Len(p) - k)
         + EvalScaledFrom(p, k + 1, num, den)
EvalScaled(p, num, den) == EvalScaledFrom(p, 1, num, den)

ema_decay == <<0, 1>>   \* the decay d itself
One == <<1>>


\* ------------------------------------------------- the external collaborators
Context == 1            \* text_encoder(text_prompts, device)
ContextNull == 0        \* text_encoder([negative_prompt] * n, device)

\* WanModel.from_pretrained(checkpoint_dir): the weights stored in checkpoint_dir
from_pretrained == << <<1>>, <<1>> >>

\* torch.randn_like(samples): the draw made from generator state r
randn_like(r) == (r % 3) - 1
\* the generator state after one draw
rng_advance(r) == (5 * r + 3) % 8

\* model([noise], t=timestep, context=context, seq_len=...)[0]
Forward(m, noise, context) == Val(m[1]) * noise + Val(m[2]) * context

\* CFG: v_teacher = v_uncond + cfg_scale * (v_cond - v_uncond)
cfg_combine(v_uncond, v_cond, scale) == v_uncond + scale * (v_cond - v_uncond)

\* F.mse_loss(v_student, v_teacher) with the gradient it carries back to the
\* student's parameters
mse_loss(v_student, v_teacher, noise) ==
    LET diff == v_student - v_teacher
    IN  [item |-> diff * diff,
         grad_fn |-> <<2 * diff * noise, 2 * diff * Context>>]

\* Faulty variant: an optimizer built over the parameters of all three models.
optimizer_step_on_all(ms, g) ==
    [n \in DOMAIN ms |->
        [i \in 1..Len(ms[n]) |-> PolyAdd(ms[n][i], <<0 - StepSize * Sign(g[i])>>)]]
\* optimizer.step(): RMSprop over distilled_model.parameters(), a step of
\* StepSize against the sign of each parameter's gradient
optimizer_step(ms, g) ==
    [ms EXCEPT !.distilled_model =
        [i \in 1..Len(@) |-> PolyAdd(@[i], <<0 - StepSize * Sign(g[i])>>)]]

\* target_param.data.mul_(decay)
mul_(target_param, decay) == PolyMul(target_param, decay)
\* target_param.data.add_(source_param.data, alpha=alpha)
add_(target_param, source_param, alpha) ==
    PolyAdd(target_param, PolyMul(source_param, alpha))

\* Faulty variant: the weights decay and 1 - decay exchanged.
update_ema_swapped_weights(target_model, source_model, decay) ==
    [i \in 1..Len(target_model) |->
        IF i <= Min(Len(target_model), Len(source_model))
        THEN add_(mul_(target_model[i], PolyAdd(One, PolyNeg(decay))),
                  source_model[i], decay)
        ELSE target_model[i]]
\* update_ema(target_model, source_model, decay): zip pairs the parameters and
\* stops at the shorter list
update_ema(target_model, source_model, decay) ==
    [i \in 1..Len(target_model) |->
        IF i <= Min(Len(target_model), Len(source_model))
        THEN add_(mul_(target_model[i], decay),
                  source_model[i], PolyAdd(One, PolyNeg(decay)))
        ELSE target_model[i]]

\* update_ema(ema_model, distilled_model, ema_decay) as called in the loop
ema_call(ms) ==
    [ms EXCEPT !.ema_model =
        update_ema(ms.ema_model, ms.distilled_model, ema_decay)]

\* Faulty variant: the student's weights are saved.
checkpoint_state_student(ms) == ms.distilled_model
\* accelerator.unwrap_model(ema_model).state_dict(): what a checkpoint holds
checkpoint_state(ms) == ms.ema_model

\* the conditions that guard the side effects
wandb_enabled(p) == use_wandb /\ is_main_process[p]

\* Faulty variant: a log for every batch.
should_log_every_batch(p) == use_wandb /\ is_main_process[p]
should_log(p) == use_wandb /\ is_main_process[p] /\ batch_idx[p] % LogEvery = 0

should_print(p) == is_main_process[p] /\ batch_idx[p] % PrintEvery = 0

\* Faulty variants: the in-epoch batch count tested in place of step; the
\* is_main_process test left out.
should_save_step_by_batch(p) ==
    (batch_idx[p] + 1) % save_interval = 0 /\ is_main_process[p]
should_save_step_any_process(p) == step[p] % save_interval = 0
should_save_step(p) == step[p] % save_interval = 0 /\ is_main_process[p]

should_save_epoch(p) == is_main_process[p]
should_save_final(p) == is_main_process[p]

step_path(n) == output_dir \o "/consistency_model_step_" \o ToString(n) \o ".pt"
epoch_path(n) == output_dir \o "/consistency_model_epoch_" \o ToString(n) \o ".pt"
final_path == output_dir \o "/consistency_model_final.pt"

\* torch.save(state, path) by process p, with the moment of the call
torch_save(p, kind, n, path) ==
    LET state == checkpoint_state(models[p])
    IN  /\ files' = (path :> state) @@ files
        /\ writes' = Append(writes,
              [proc |-> p, kind |-> kind, n |-> n, path |-> path,
               state |-> state, at_step |-> step[p],
               ema_calls |-> ema_calls[p], opt_calls |-> opt_calls[p]])
        /\ UNCHANGED <<dirs, makedirs_calls>>

\* ---------------------------------------------------------------- initial state
NoModels == [original_model |-> from_pretrained, distilled_model |-> <<>>,
             ema_model |-> <<>>]
NoLoss == [item |-> 0, grad_fn |-> <<0, 0>>]

InitMainIdle ==
    /\ main_pc = "imported"
    /\ cli = <<>>
    /\ args = <<>>
    /\ config_files = <<>>

InitTrain(w, flags, maxE, maxB, maxS) ==
    /\ world = w
    /\ is_main_process \in flags
    /\ num_epochs \in 0..maxE
    /\ num_batches \in 0..maxB
    /\ save_interval \in 1..maxS
    /\ use_wandb \in BOOLEAN
    /\ cfg_scale \in 1..MaxCfgScale
    /\ config_global \in BOOLEAN
    /\ pc = [p \in Procs |-> IF p \in w THEN "makedirs" ELSE "off"]
    /\ epoch = [p \in Procs |-> 0]
    /\ batch_idx = [p \in Procs |-> 0]
    /\ step = [p \in Procs |-> 0]
    /\ total_loss = [p \in Procs |-> 0]
    /\ loss = [p \in Procs |-> NoLoss]
    /\ grad = [p \in Procs |-> <<0, 0>>]
    /\ models = [p \in Procs |-> NoModels]
    /\ \E seed \in 0..MaxSeed : rng = [p \in Procs |-> seed]
    /\ returned = [p \in Procs |-> <<>>]
    /\ opt_calls = [p \in Procs |-> 0]
    /\ ema_calls = [p \in Procs |-> 0]
    /\ ema_hist = [p \in Procs |-> <<>>]
    /\ loss_hist = [p \in Procs |-> <<>>]
    /\ dirs = {}
    /\ makedirs_calls = <<>>
    /\ files = <<>>
    /\ writes = <<>>
    /\ wandb_calls = <<>>
    /\ stdout = <<>>
    /\ InitMainIdle

\* one process; its accelerator may be a stand-in that reports a secondary
Init ==
    InitTrain({1}, {[p \in Procs |-> b /\ p = 1] : b \in BOOLEAN},
              MaxEpochs, MaxBatches, MaxSaveInterval)

\* every process of the launch; process 1 has process index 0, the primary
InitMulti ==
    InitTrain(Procs, {[p \in Procs |-> p = 1]},
              MaxEpochsMulti, MaxBatchesMulti, MaxSaveIntervalMulti)


\* ------------------------------------------ train_consistency_distillation
Goto(p, label) == pc' = [pc EXCEPT ![p] = label]

\* os.makedirs(output_dir, exist_ok=True)
Makedirs(p) ==
    /\ pc[p] = "makedirs"
    /\ dirs' = dirs \cup {output_dir}
    /\ makedirs_calls' = Append(makedirs_calls, [proc |-> p, path |-> output_dir])
    /\ Goto(p, "wandb_init")
    /\ UNCHANGED <<inputVars, loopVars, tensorVars, returned, histVars, files,
                   writes, outVars, mainVars>>

\* if use_wandb and accelerator.is_main_process: wandb.init(...)
WandbInit(p) ==
    /\ pc[p] = "wandb_init"
    /\ wandb_calls' =
         IF wandb_enabled(p)
         THEN Append(wandb_calls,
                [proc |-> p, call |-> "init",
                 payload |-> [num_epochs |-> num_epochs, cfg_scale |-> cfg_scale,
                              save_interval |-> save_interval]])
         ELSE wandb_calls
    /\ Goto(p, "setup")
    /\ UNCHANGED <<inputVars, loopVars, tensorVars, returned, histVars, fsVars,
                   stdout, mainVars>>

\* the student is loaded; the text encoder is built from config.text_len,
\* where config is no parameter of the function (the parameter is named
\* model_config) but a global name of the module: unbound, NameError ends the
\* call; bound, the EMA model is loaded and the counters start at zero
Setup(p) ==
    /\ pc[p] = "setup"
    /\ IF config_global
       THEN /\ models' = [models EXCEPT ![p].distilled_model = from_pretrained,
                                        ![p].ema_model = from_pretrained]
            /\ ema_hist' = [ema_hist EXCEPT ![p] = <<from_pretrained>>]
            /\ step' = [step EXCEPT ![p] = 0]
            /\ total_loss' = [total_loss EXCEPT ![p] = 0]
            /\ Goto(p, "epoch")
       ELSE /\ models' = [models EXCEPT ![p].distilled_model = from_pretrained]
            /\ UNCHANGED <<ema_hist, step, total_loss>>
            /\ Goto(p, "NameError")
    /\ UNCHANGED <<inputVars, epoch, batch_idx, loss, grad, rng, returned,
                   opt_calls, ema_calls, loss_hist, fsVars, outVars, mainVars>>

\* for epoch in range(num_epochs)
NextEpoch(p) ==
    /\ pc[p] = "epoch"
    /\ IF epoch[p] < num_epochs
       THEN /\ batch_idx' = [batch_idx EXCEPT ![p] = 0]
            /\ Goto(p, "batch")
       ELSE /\ UNCHANGED batch_idx
            /\ Goto(p, "save_final")
    /\ UNCHANGED <<inputVars, epoch, step, total_loss, tensorVars, returned,
                   histVars, fsVars, outVars, mainVars>>

\* for batch_idx, (samples, text_prompts) in enumerate(tqdm(train_dataloader))
NextBatch(p) ==
    /\ pc[p] = "batch"
    /\ IF batch_idx[p] < num_batches
       THEN Goto(p, "forward")
       ELSE Goto(p, "save_epoch")
    /\ UNCHANGED <<inputVars, loopVars, tensorVars, returned, histVars, fsVars,
                   outVars, mainVars>>

\* noise, the two teacher predictions, the guided target, the student
\* prediction and the loss
ForwardLoss(p) ==
    /\ pc[p] = "forward"
    /\ LET noise == randn_like(rng[p])
           v_uncond == Forward(models[p].original_model, noise, ContextNull)
           v_cond == Forward(models[p].original_model, noise, Context)
           v_teacher == cfg_combine(v_uncond, v_cond, cfg_scale)
           v_student == Forward(models[p].distilled_model, noise, Context)
       IN  /\ loss' = [loss EXCEPT ![p] = mse_loss(v_student, v_teacher, noise)]
           /\ loss_hist' = [loss_hist EXCEPT ![p] = Append(@, loss'[p].item)]
    /\ rng' = [rng EXCEPT ![p] = rng_advance(@)]
    /\ Goto(p, "backward")
    /\ UNCHANGED <<inputVars, loopVars, grad, models, returned, opt_calls,
                   ema_calls, ema_hist, fsVars, outVars, mainVars>>

\* accelerator.backward(loss)
Backward(p) ==
    /\ pc[p] = "backward"
    /\ grad' = [grad EXCEPT ![p] = [i \in 1..Len(@) |-> @[i] + loss[p].grad_fn[i]]]
    /\ Goto(p, "optimizer")
    /\ UNCHANGED <<inputVars, loopVars, loss, models, rng, returned, histVars,
                   fsVars, outVars, mainVars>>

\* optimizer.step(); optimizer.zero_grad()
OptimizerStep(p) ==
    /\ pc[p] = "optimizer"
    /\ models' = [models EXCEPT ![p] = optimizer_step(@, grad[p])]
    /\ grad' = [grad EXCEPT ![p] = [i \in 1..Len(@) |-> 0]]
    /\ opt_calls' = [opt_calls EXCEPT ![p] = @ + 1]
    /\ Goto(p, "update_ema")
    /\ UNCHANGED <<inputVars, loopVars, loss, rng, returned, ema_calls, ema_hist,
                   loss_hist, fsVars, outVars, mainVars>>

\* update_ema(ema_model, distilled_model, ema_decay)
UpdateEma(p) ==
    /\ pc[p] = "update_ema"
    /\ models' = [models EXCEPT ![p] = ema_call(@)]
    /\ ema_calls' = [ema_calls EXCEPT ![p] = @ + 1]
    /\ ema_hist' = [ema_hist EXCEPT ![p] = Append(@, models'[p].ema_model)]
    /\ Goto(p, "stats")
    /\ UNCHANGED <<inputVars, loopVars, loss, grad, rng, returned, opt_calls,
                   loss_hist, fsVars, outVars, mainVars>>

\* Faulty variant: a step counter that restarts with every epoch.
stats_step_in_epoch(p) == batch_idx[p] + 1
\* step += 1
stats_step(p) == step[p] + 1

\* total_loss += loss.item(); step += 1

UpdateStats(p) ==
    /\ pc[p] = "stats"
    /\ total_loss' = [total_loss EXCEPT ![p] = @ + loss[p].item]
    /\ step' = [step EXCEPT ![p] = stats_step(p)]
    /\ Goto(p, "log")
    /\ UNCHANGED <<inputVars, epoch, batch_idx, tensorVars, returned, histVars,
                   fsVars, outVars, mainVars>>

\* if use_wandb and accelerator.is_main_process and batch_idx % 5 == 0: wandb.log
WandbLog(p) ==
    /\ pc[p] = "log"
    /\ wandb_calls' =
         IF should_log(p)
         THEN Append(wandb_calls,
                [proc |-> p, call |-> "log",
                 payload |-> [step |-> step[p], batch_loss |-> loss[p].item,
                              avg_loss |-> <<total_loss[p], batch_idx[p] + 1>>,
                              epoch |-> epoch[p] + 1]])
         ELSE wandb_calls
    /\ Goto(p, "print")
    /\ UNCHANGED <<inputVars, loopVars, tensorVars, returned, histVars, fsVars,
                   stdout, mainVars>>

\* if accelerator.is_main_process and batch_idx % 10 == 0: print the average
PrintProgress(p) ==
    /\ pc[p] = "print"
    /\ stdout' =
         IF should_print(p)
         THEN Append(stdout,
                [proc |-> p, epoch |-> epoch[p] + 1, batch |-> batch_idx[p],
                 avg_loss |-> <<total_loss[p], batch_idx[p] + 1>>])
         ELSE stdout
    /\ Goto(p, "save_step")
    /\ UNCHANGED <<inputVars, loopVars, tensorVars, returned, histVars, fsVars,
                   wandb_calls, mainVars>>

\* if step % save_interval == 0 and accelerator.is_main_process: torch.save
SaveStep(p) ==
    /\ pc[p] = "save_step"
    /\ IF should_save_step(p)
       THEN torch_save(p, "step", step[p], step_path(step[p]))
       ELSE UNCHANGED fsVars
    /\ batch_idx' = [batch_idx EXCEPT ![p] = @ + 1]
    /\ Goto(p, "batch")
    /\ UNCHANGED <<inputVars, epoch, step, total_loss, tensorVars, returned,
                   histVars, outVars, mainVars>>

\* if accelerator.is_main_process: torch.save of the epoch checkpoint
SaveEpoch(p) ==
    /\ pc[p] = "save_epoch"
    /\ IF should_save_epoch(p)
       THEN torch_save(p, "epoch", epoch[p] + 1, epoch_path(epoch[p] + 1))
       ELSE UNCHANGED fsVars
    /\ Goto(p, "reset")
    /\ UNCHANGED <<inputVars, loopVars, tensorVars, returned, histVars, outVars,
                   mainVars>>

\* total_loss = 0.0, and the epoch loop advances

ResetLoss(p) ==
    /\ pc[p] = "reset"
    /\ total_loss' = [total_loss EXCEPT ![p] = 0]
    /\ epoch' = [epoch EXCEPT ![p] = @ + 1]
    /\ Goto(p, "epoch")
    /\ UNCHANGED <<inputVars, batch_idx, step, tensorVars, returned, histVars,
                   fsVars, outVars, mainVars>>

\* if accelerator.is_main_process: torch.save of the final checkpoint
SaveFinal(p) ==
    /\ pc[p] = "save_final"
    /\ IF should_save_final(p)
       THEN torch_save(p, "final", 0, final_path)
       ELSE UNCHANGED fsVars
    /\ Goto(p, "finish")
    /\ UNCHANGED <<inputVars, loopVars, tensorVars, returned, histVars, outVars,
                   mainVars>>

\* if use_wandb and accelerator.is_main_process: wandb.finish()
WandbFinish(p) ==
    /\ pc[p] = "finish"
    /\ wandb_calls' =
         IF wandb_enabled(p)
         THEN Append(wandb_calls, [proc |-> p, call |-> "finish", payload |-> <<>>])
         ELSE wandb_calls
    /\ Goto(p, "return")
    /\ UNCHANGED <<inputVars, loopVars, tensorVars, returned, histVars, fsVars,
                   stdout, mainVars>>

\* return accelerator.unwrap_model(ema_model)
Return(p) ==
    /\ pc[p] = "return"
    /\ returned' = [returned EXCEPT ![p] = models[p].ema_model]
    /\ Goto(p, "done")
    /\ UNCHANGED <<inputVars, loopVars, tensorVars, histVars, fsVars, outVars,
                   mainVars>>

Next ==
    \/ \E p \in world : Makedirs(p)
    \/ \E p \in world : WandbInit(p)
    \/ \E p \in world : Setup(p)
    \/ \E p \in world : NextEpoch(p)
    \/ \E p \in world : NextBatch(p)
    \/ \E p \in world : ForwardLoss(p)
    \/ \E p \in world : Backward(p)
    \/ \E p \in world : OptimizerStep(p)
    \/ \E p \in world : UpdateEma(p)
    \/ \E p \in world : UpdateStats(p)
    \/ \E p \in world : WandbLog(p)
    \/ \E p \in world : PrintProgress(p)
    \/ \E p \in world : SaveStep(p)
    \/ \E p \in world : SaveEpoch(p)
    \/ \E p \in world : ResetLoss(p)
    \/ \E p \in world : SaveFinal(p)
    \/ \E p \in world : WandbFinish(p)
    \/ \E p \in world : Return(p)

Spec == Init /\ [][Next]_vars
SpecMulti == InitMulti /\ [][Next]_vars


\* ------------------------------------------------------- the __main__ block
\* parser.add_argument(...): every argument with a default, and its default
ParserDefaults ==
    [output_dir |-> "./output", device_id |-> "0", num_epochs |-> "10",
     learning_rate |-> "5e-6", cfg_scale |-> "7.5", batch_size |-> "8",
     use_wandb |-> "False", wandb_project |-> "seaweed-apt-distillation",
     wandb_run_name |-> NONE, config_file |-> "./config.yaml",
     save_interval |-> "350"]
RequiredArgs == {"checkpoint_dir"}
ArgKeys == DOMAIN ParserDefaults \cup RequiredArgs

\* the invocations and the config files the model draws from
CliValues ==
    [checkpoint_dir |-> {"./ckpt"}, num_epochs |-> {"3"}, save_interval |-> {"100"},
     wandb_run_name |-> {"run-cli"}, config_file |-> {"", "./alt.yaml"}]
ConfigValues ==
    [checkpoint_dir |-> "./ckpt-file", num_epochs |-> "20",
     save_interval |-> "500", wandb_run_name |-> "run-file", text_len |-> "512"]
ConfigPaths == {"./config.yaml", "./alt.yaml"}

\* what the user passed: a value for each argument of a subset of the arguments
Invocations ==
    UNION {[K -> UNION {CliValues[k] : k \in K}] : K \in SUBSET DOMAIN CliValues}
ValidInvocations == {c \in Invocations : \A k \in DOMAIN c : c[k] \in CliValues[k]}

InitTrainIdle ==
    /\ world = {}
    /\ is_main_process = [p \in Procs |-> FALSE]
    /\ num_epochs = 0
    /\ num_batches = 0
    /\ save_interval = 1
    /\ use_wandb = FALSE
    /\ cfg_scale = 1
    /\ config_global = FALSE
    /\ pc = [p \in Procs |-> "off"]
    /\ epoch = [p \in Procs |-> 0]
    /\ batch_idx = [p \in Procs |-> 0]
    /\ step = [p \in Procs |-> 0]
    /\ total_loss = [p \in Procs |-> 0]
    /\ loss = [p \in Procs |-> NoLoss]
    /\ grad = [p \in Procs |-> <<0, 0>>]
    /\ models = [p \in Procs |-> NoModels]
    /\ rng = [p \in Procs |-> 0]
    /\ returned = [p \in Procs |-> <<>>]
    /\ opt_calls = [p \in Procs |-> 0]
    /\ ema_calls = [p \in Procs |-> 0]
    /\ ema_hist = [p \in Procs |-> <<>>]
    /\ loss_hist = [p \in Procs |-> <<>>]
    /\ dirs = {}
    /\ makedirs_calls = <<>>
    /\ files = <<>>
    /\ writes = <<>>
    /\ wandb_calls = <<>>
    /\ stdout = <<>>

InitMain ==
    /\ InitTrainIdle
    /\ main_pc = "parse_args"
    /\ cli \in ValidInvocations
    /\ args = <<>>
    /\ \E existing \in SUBSET ConfigPaths, K \in SUBSET DOMAIN ConfigValues :
          config_files = [f \in existing |-> [k \in K |-> ConfigValues[k]]]

\* args = parser.parse_args(): the value passed, else the default; a missing
\* required argument ends the program
parse_args(argv) ==
    [k \in DOMAIN ParserDefaults \cup DOMAIN argv |->
        IF k \in DOMAIN argv THEN argv[k] ELSE ParserDefaults[k]]

ParseArgs ==
    /\ main_pc = "parse_args"
    /\ IF RequiredArgs \subseteq DOMAIN cli
       THEN /\ args' = parse_args(cli)
            /\ main_pc' = "load_config"
       ELSE /\ UNCHANGED args
            /\ main_pc' = "SystemExit"
    /\ UNCHANGED <<inputVars, pc, loopVars, tensorVars, returned, histVars,
                   fsVars, outVars, cli, config_files>>

\* Faulty variant: the file's value always taken.
should_fill_always(args_dict, key) == TRUE
\* if key not in args_dict or args_dict[key] is None
should_fill(args_dict, key) == key \notin DOMAIN args_dict \/ args_dict[key] = NONE

\* for key, value in config.items(): ... args_dict[key] = value
merge_config(args_dict, config) ==
    [k \in DOMAIN args_dict \cup DOMAIN config |->
        IF k \in DOMAIN config /\ should_fill(args_dict, k)
        THEN config[k]
        ELSE args_dict[k]]

\* if args.config_file and os.path.exists(args.config_file)
config_loaded(a, fs) == a.config_file # "" /\ a.config_file \in DOMAIN fs

MergeConfig ==
    /\ main_pc = "load_config"
    /\ args' = IF config_loaded(args, config_files)
               THEN merge_config(args, config_files[args.config_file])
               ELSE args
    /\ main_pc' = "call_train"
    /\ UNCHANGED <<inputVars, pc, loopVars, tensorVars, returned, histVars,
                   fsVars, outVars, cli, config_files>>

\* train_consistency_distillation(original_model=..., config=config, ...): the
\* function has no parameter named config, the call raises TypeError
CallTrain ==
    /\ main_pc = "call_train"
    /\ main_pc' = "TypeError"
    /\ UNCHANGED <<inputVars, pc, loopVars, tensorVars, returned, histVars,
                   fsVars, outVars, cli, args, config_files>>

NextMain == ParseArgs \/ MergeConfig \/ CallTrain

SpecMain == InitMain /\ [][NextMain]_vars


\* ------------------------------------------------------------------ claims
RECURSIVE SumRange(_, _, _)
SumRange(s, lo, hi) == IF lo > hi THEN 0 ELSE s[lo] + SumRange(s, lo + 1, hi)

IsStepWrite(w) == w.kind = "step"
IsEpochWrite(w) == w.kind = "epoch"
IsFinalWrite(w) == w.kind = "final"
IsLogCall(c) == c.call = "log"

AfterStats == {"log", "print", "save_step"}
AfterLoop == {"save_final", "finish", "return", "done"}
AfterFinal == {"finish", "return", "done"}
\* not yet in the loop, or ended before it
BeforeLoop == {"off", "makedirs", "wandb_init", "setup", "NameError"}

\* the steps whose step-checkpoint test has been passed by process p
StepsTested(p) == IF pc[p] \in AfterStats THEN step[p] - 1 ELSE step[p]
\* the epochs whose epoch-checkpoint test has been passed by process p
EpochsTested(p) == IF pc[p] = "reset" THEN epoch[p] + 1 ELSE epoch[p]

\* C1: on the primary process the step checkpoints written so far are exactly
\* those of the positive multiples of save_interval among the steps taken, one
\* each and in order; one epoch checkpoint is written per finished epoch; the
\* final checkpoint is written once, after all others; a finished run of E
\* epochs of B batches has written (E*B) \div S step checkpoints, E epoch
\* checkpoints and one final checkpoint.
C1_CheckpointCadence ==
    \A p \in world :
        is_main_process[p] /\ pc[p] \notin BeforeLoop =>
            LET mine == SelectSeq(writes, LAMBDA w : w.proc = p)
                steps == SelectSeq(mine, IsStepWrite)
                epochs == SelectSeq(mine, IsEpochWrite)
                finals == SelectSeq(mine, IsFinalWrite)
            IN  /\ Len(steps) = StepsTested(p) \div save_interval
                /\ \A i \in 1..Len(steps) :
                      /\ steps[i].n = i * save_interval
                      /\ steps[i].path = step_path(i * save_interval)
                /\ Len(epochs) = EpochsTested(p)
                /\ \A i \in 1..Len(epochs) :
                      /\ epochs[i].n = i
                      /\ epochs[i].path = epoch_path(i)
                /\ Len(finals) = IF pc[p] \in AfterFinal THEN 1 ELSE 0
                /\ Len(finals) = 1 => /\ mine[Len(mine)] = finals[1]
                                      /\ finals[1].path = final_path
                /\ Len(mine) = Len(steps) + Len(epochs) + Len(finals)
                /\ pc[p] = "done" =>
                      /\ Len(steps) = (num_epochs * num_batches) \div save_interval
                      /\ Len(epochs) = num_epochs

\* a finished primary run of two epochs whose step count is no multiple of
\* the interval, with two interim writes
C1_Witness ==
    /\ pc[1] = "done" /\ is_main_process[1]
    /\ num_epochs = 2 /\ save_interval = 3
    /\ (num_epochs * num_batches) % save_interval # 0
    /\ Len(SelectSeq(writes, IsStepWrite)) = 2
    /\ Len(SelectSeq(writes, IsEpochWrite)) = 2

\* C2: every checkpoint write is made by a process whose is_main_process flag
\* is true, and no path is written by two different processes.
C2_OnlyPrimaryWrites ==
    /\ \A i \in 1..Len(writes) : is_main_process[writes[i].proc]
    /\ \A i, j \in 1..Len(writes) :
          writes[i].path = writes[j].path => writes[i].proc = writes[j].proc

\* both processes have finished, the secondary passed a step at which the
\* primary wrote a step checkpoint
C2_Witness ==
    /\ \A p \in Procs : pc[p] = "done"
    /\ \E p \in Procs : ~is_main_process[p] /\ step[p] >= save_interval
    /\ \E i \in 1..Len(writes) : writes[i].kind = "step"
    /\ \E i \in 1..Len(writes) : writes[i].kind = "final"

\* C3: the output directory is created only by the process whose
\* is_main_process flag is true.
C3_OnlyPrimaryMakesDirs ==
    \A i \in 1..Len(makedirs_calls) : is_main_process[makedirs_calls[i].proc]

Merged == main_pc \in {"call_train", "TypeError"}

\* C4: after the merge, when the config file was loaded, every argument the
\* user omitted and the file holds has the file's value.
C4_OmittedFilledFromConfig ==
    Merged /\ config_loaded(parse_args(cli), config_files) =>
        LET config == config_files[parse_args(cli).config_file]
        IN  \A k \in (ArgKeys \cap DOMAIN config) \ DOMAIN cli :
                args[k] = config[k]

\* C5: after the merge every argument the user passed has the value passed,
\* whatever the config file holds.
C5_CommandLineWins ==
    Merged => \A k \in DOMAIN cli : args[k] = cli[k]

\* the config file was loaded and holds another value for a passed argument
C5_Witness ==
    /\ Merged
    /\ config_loaded(parse_args(cli), config_files)
    /\ \E k \in DOMAIN cli :
          /\ k \in DOMAIN config_files[args.config_file]
          /\ config_files[args.config_file][k] # cli[k]

\* C6: every metrics call is made with use_wandb true and by the primary; a
\* log call is made only for a batch whose in-epoch index is a multiple of 5;
\* the first call is the one init, and finish is the last call and follows the
\* final checkpoint write.
C6_MetricsOnlyWhenEnabled ==
    /\ \A i \in 1..Len(wandb_calls) :
          LET c == wandb_calls[i]
          IN  /\ use_wandb
              /\ is_main_process[c.proc]
              /\ (c.call = "init") = (i = 1)
              /\ c.call = "log" =>
                    ((c.payload.step - 1) % num_batches) % LogEvery = 0
              /\ c.call = "finish" =>
                    /\ i = Len(wandb_calls)
                    /\ \E j \in 1..Len(writes) :
                          writes[j].kind = "final" /\ writes[j].proc = c.proc
    /\ \A p \in world :
          ~(use_wandb /\ is_main_process[p]) =>
              \A i \in 1..Len(wandb_calls) : wandb_calls[i].proc # p

\* an enabled primary run finished, with a log for in-epoch index 5 and
\* batches that were not logged
C6_Witness ==
    /\ pc[1] = "done" /\ use_wandb /\ is_main_process[1]
    /\ num_batches > LogEvery
    /\ \E i \in 1..Len(wandb_calls) :
          wandb_calls[i].call = "log" /\ wandb_calls[i].payload.step = LogEvery + 1
    /\ Len(SelectSeq(wandb_calls, IsLogCall)) < step[1]
    /\ wandb_calls[Len(wandb_calls)].call = "finish"

\* the batches process p has completed, from its place in the two loops
BatchesCompleted(p) ==
    IF pc[p] \in AfterLoop \cup {"epoch"} THEN epoch[p] * num_batches
    ELSE epoch[p] * num_batches + batch_idx[p]
         + (IF pc[p] \in AfterStats THEN 1 ELSE 0)

\* the losses of the batches of epoch e (counted from 1) up to in-epoch index b
EpochLossSum(p, e, b) ==
    SumRange(loss_hist[p], (e - 1) * num_batches + 1, (e - 1) * num_batches + b + 1)

\* C7: step is the number of batches completed over all epochs; total_loss is
\* the sum of the losses of the batches completed in the current epoch, zero
\* once the epoch has ended; a displayed average is that sum over the number
\* of batches processed in the epoch.
C7_StepAndLossCounters ==
    \A p \in world :
        pc[p] \notin BeforeLoop =>
            /\ step[p] = BatchesCompleted(p)
            /\ total_loss[p] =
                  IF pc[p] \in AfterLoop \cup {"epoch"} THEN 0
                  ELSE SumRange(loss_hist[p], epoch[p] * num_batches + 1, step[p])
            /\ \A i \in 1..Len(wandb_calls) :
                  LET c == wandb_calls[i]
                  IN  c.call = "log" /\ c.proc = p =>
                         LET b == (c.payload.step - 1) % num_batches
                         IN  /\ c.payload.step =
                                   (c.payload.epoch - 1) * num_batches + b + 1
                             /\ c.payload.avg_loss =
                                   <<EpochLossSum(p, c.payload.epoch, b), b + 1>>
            /\ \A i \in 1..Len(stdout) :
                  LET l == stdout[i]
                  IN  l.proc = p =>
                         l.avg_loss = <<EpochLossSum(p, l.epoch, l.batch), l.batch + 1>>

\* in the second epoch, at its sixth batch, after losses in both epochs, an
\* average printed in the second epoch and one logged over its six batches
C7_Witness ==
    /\ epoch[1] = 1 /\ pc[1] = "save_step" /\ batch_idx[1] = LogEvery
    /\ step[1] = num_batches + LogEvery + 1
    /\ total_loss[1] > 0
    /\ SumRange(loss_hist[1], 1, num_batches) > 0
    /\ \E i \in 1..Len(stdout) : stdout[i].epoch = 2 /\ stdout[i].avg_loss[1] > 0
    /\ \E i \in 1..Len(wandb_calls) :
          /\ wandb_calls[i].call = "log"
          /\ wandb_calls[i].payload.epoch = 2
          /\ wandb_calls[i].payload.avg_loss = <<total_loss[1], LogEvery + 1>>

BatchLabels == {"forward", "backward", "optimizer", "update_ema", "stats", "log",
                "print", "save_step"}

\* C8: no step changes the teacher's parameters; past the set-up the student's
\* parameters change only in the optimizer update, which changes nothing else,
\* and the EMA model's only in the EMA update; a checkpoint write changes no
\* parameter.
C8_ParameterFrames ==
    [][\A p \in world :
          /\ models'[p].original_model = models[p].original_model
          /\ pc[p] # "setup" =>
                /\ models'[p].distilled_model # models[p].distilled_model =>
                      pc[p] = "optimizer"
                /\ models'[p].ema_model # models[p].ema_model =>
                      pc[p] = "update_ema"
          /\ pc[p] = "optimizer" => models'[p].ema_model = models[p].ema_model
          /\ writes' # writes => models' = models]_vars

\* a finished run in which the student and the EMA model have both moved away
\* from the loaded weights and checkpoints were written
C8_Witness ==
    /\ pc[1] = "done"
    /\ models[1].distilled_model # from_pretrained
    /\ models[1].ema_model # from_pretrained
    /\ models[1].ema_model # models[1].distilled_model
    /\ models[1].original_model = from_pretrained
    /\ Len(writes) >= 3

\* C9: the EMA update of a batch follows that batch's optimizer update and
\* replaces every EMA parameter e, paired with the student's parameter s at
\* the same position, by d*e + (1-d)*s: as polynomials in d, and in the first
\* update also as numbers for every d = n/EmaDecayDen in (0,1), 0.995 among
\* them; it is one update of every parameter.
C9_EmaUpdateRule ==
    [][\A p \in world :
          pc[p] = "update_ema" /\ pc'[p] # "update_ema" =>
              LET old == models[p].ema_model
                  new == models'[p].ema_model
                  student == models[p].distilled_model
              IN  /\ opt_calls[p] = step[p] + 1
                  /\ ema_calls[p] = step[p]
                  /\ ema_calls'[p] = ema_calls[p] + 1
                  /\ Len(new) = Len(old)
                  /\ Len(student) = Len(old)
                  /\ \A i \in 1..Len(old) :
                        /\ Len(new[i]) = Len(old[i]) + 1
                        /\ \A k \in 1..Len(new[i]) :
                              new[i][k] = PolyCoef(old[i], k - 1)
                                          + PolyCoef(student[i], k)
                                          - PolyCoef(student[i], k - 1)
                        /\ ema_calls[p] = 0 =>
                              \A n \in 1..(EmaDecayDen - 1) :
                                  EvalScaled(new[i], n, EmaDecayDen) =
                                      n * Val(old[i])
                                      + (EmaDecayDen - n) * Val(student[i])]_vars

\* two EMA updates were made, from a student that had left the loaded weights,
\* and the EMA parameters depend on the decay
C9_Witness ==
    /\ ema_calls[1] >= 2
    /\ \E i \in 1..Len(from_pretrained) :
          /\ models[1].distilled_model[i] # from_pretrained[i]
          /\ PolyCoef(models[1].ema_model[i], 2) # 0
          /\ EvalScaled(ema_hist[1][2][i], EmaDecayNum, EmaDecayDen)
                # EmaDecayDen * Val(from_pretrained[i])

\* C10: the optimizer update and the EMA update are made once per batch, in
\* that order, before the batch's checkpoint test; a checkpoint is written
\* after step optimizer and step EMA updates and holds the EMA model as it is
\* after step EMA updates; the file of the final checkpoint and the returned
\* model hold the EMA model of the last epoch checkpoint.
C10_CheckpointsHoldEma ==
    \A p \in world :
        pc[p] \notin BeforeLoop =>
            /\ opt_calls[p] = step[p] + (IF pc[p] \in {"update_ema", "stats"} THEN 1 ELSE 0)
            /\ ema_calls[p] = step[p] + (IF pc[p] = "stats" THEN 1 ELSE 0)
            /\ Len(ema_hist[p]) = ema_calls[p] + 1
            /\ \A i \in 1..Len(writes) :
                  LET w == writes[i]
                  IN  w.proc = p =>
                         /\ w.opt_calls = w.at_step
                         /\ w.ema_calls = w.at_step
                         /\ w.state = ema_hist[p][w.at_step + 1]
                         /\ w.kind = "step" => w.n = w.at_step
                         /\ w.path \in DOMAIN files
            /\ pc[p] = "done" =>
                  /\ returned[p] = ema_hist[p][step[p] + 1]
                  /\ is_main_process[p] =>
                        /\ files[final_path] = returned[p]
                        /\ num_epochs >= 1 =>
                              files[epoch_path(num_epochs)] = files[final_path]

\* a finished primary run with a step checkpoint written before the last
\* step, whose files differ from the student and from each other
C10_Witness ==
    /\ pc[1] = "done" /\ is_main_process[1] /\ num_epochs >= 1
    /\ \E i \in 1..Len(writes) :
          /\ writes[i].kind = "step"
          /\ writes[i].at_step < step[1]
          /\ writes[i].state # files[final_path]
    /\ files[final_path] # models[1].distilled_model
    /\ files[final_path] = models[1].ema_model

====
